---- MODULE Spec2Model ----
(***************************************************************************)
(* The aggregation pipeline of bd-news-rss: the three GET route handlers   *)
(* (news /api/rss, videos /api/videos, products /api/product), their       *)
(* per-source fetchers and normalizers, the p-limit pool of the product    *)
(* scraper, and the sort / slice / response step.                          *)
(*                                                                         *)
(* One process serves one of the three routes (route); the outside world   *)
(* is web (what each configured source answers) and query (the query       *)
(* string of each incoming request).  Every await of the handlers is a     *)
(* point where another callback may run; what runs between two awaits is   *)
(* one action.                                                             *)
(***************************************************************************)
EXTENDS Integers, Sequences, FiniteSets, TLC

\* ---------------------------------------------------------------- bounds
\* total number of entries (feed items, video entries, sitemap locs) that
\* the configured sources hold together
MaxItems == 3
\* largest number written in an offset or limit query parameter
MaxParam == 2
\* number of load-more requests a page component sends
MaxScrolls == 2

\* ------------------------------------------------------ program constants
PoolSize == 5
SitemapCap == 50
ScrapeCap == 15
VideoDefaultOffset == 0
VideoDefaultLimit == 30

\* --------------------------------------------------------- JS numbers
\* a JS number that is either an integer or NaN
NaN == [nan |-> TRUE, v |-> 0]
Num(n) == [nan |-> FALSE, v |-> n]
NumAdd(a, b) == IF a.nan \/ b.nan THEN NaN ELSE Num(a.v + b.v)
NumSub(a, b) == IF a.nan \/ b.nan THEN NaN ELSE Num(a.v - b.v)
\* a < b  (false whenever an operand is NaN)
NumLess(a, b) == ~a.nan /\ ~b.nan /\ a.v < b.v
isNaN(a) == a.nan
Min(a, b) == IF a < b THEN a ELSE b
Max(a, b) == IF a > b THEN a ELSE b

\* --------------------------------------------------------- JS strings
\* a query-string value is a sequence of one-character strings
DigitChars == <<"0", "1", "2", "3", "4", "5", "6", "7", "8", "9">>
IsDigit(c) == \E i \in 1..Len(DigitChars) : DigitChars[i] = c
DigitVal(c) == (CHOOSE i \in 1..Len(DigitChars) : DigitChars[i] = c) - 1
IsSpace(c) == c = " "

RECURSIVE SkipSpaces(_)
SkipSpaces(s) == IF s # <<>> /\ IsSpace(Head(s)) THEN SkipSpaces(Tail(s)) ELSE s

\* the value of the longest prefix of digits of s, continuing from acc
RECURSIVE DigitPrefix(_, _)
DigitPrefix(s, acc) ==
  IF s # <<>> /\ IsDigit(Head(s))
    THEN DigitPrefix(Tail(s), 10 * acc + DigitVal(Head(s)))
    ELSE acc

\* Number.parseInt(s): leading blanks skipped, an optional sign, then the
\* longest run of digits; NaN when there is no digit at that place
parseInt(s) ==
  LET t == SkipSpaces(s)
      neg == t # <<>> /\ Head(t) = "-"
      u == IF t # <<>> /\ Head(t) \in {"-", "+"} THEN Tail(t) ELSE t
  IN IF u = <<>> \/ ~IsDigit(Head(u)) THEN NaN
     ELSE Num(IF neg THEN 0 - DigitPrefix(u, 0) ELSE DigitPrefix(u, 0))

RECURSIVE AllDigits(_)
AllDigits(s) == s = <<>> \/ (IsDigit(Head(s)) /\ AllDigits(Tail(s)))

RECURSIVE TrimRight(_)
TrimRight(s) ==
  IF s # <<>> /\ IsSpace(s[Len(s)]) THEN TrimRight(SubSeq(s, 1, Len(s) - 1)) ELSE s

\* Number(s) for a string: blanks trimmed, "" is 0, a signed run of digits
\* is its value and every other text of the model's alphabet is NaN
NumberOfString(s) ==
  LET t == TrimRight(SkipSpaces(s))
      neg == t # <<>> /\ Head(t) = "-"
      u == IF t # <<>> /\ Head(t) \in {"-", "+"} THEN Tail(t) ELSE t
  IN IF t = <<>> THEN Num(0)
     ELSE IF u = <<>> \/ ~AllDigits(u) THEN NaN
     ELSE Num(IF neg THEN 0 - DigitPrefix(u, 0) ELSE DigitPrefix(u, 0))

\* searchParams.get(name): null when the parameter is absent
Absent == [present |-> FALSE, s |-> <<>>]
Given(s) == [present |-> TRUE, s |-> s]
\* x || d on a string-or-null x: null and "" are falsy
Truthy(p) == p.present /\ p.s # <<>>

\* Array.prototype.slice(start, end)
ToIntegerOrZero(n) == IF n.nan THEN 0 ELSE n.v
RelIndex(n, len) ==
  LET k == ToIntegerOrZero(n) IN IF k < 0 THEN Max(len + k, 0) ELSE Min(k, len)
Slice(a, start, end) ==
  LET k == RelIndex(start, Len(a))
      final == RelIndex(end, Len(a))
  IN IF k >= final THEN <<>> ELSE SubSeq(a, k + 1, final)

\* s.substring(0, n) on a title held as one token per character group
Take(a, n) == SubSeq(a, 1, Min(n, Len(a)))

\* ------------------------------------------------- Array.prototype.sort
\* The engine's sort for arrays shorter than 64 elements: the leading run
\* is found (and reversed when strictly descending), then the rest is
\* inserted by binary search.  w holds indices into the array being
\* sorted; ord[i][j] is the comparator's result on elements i and j with
\* NaN already read as +0.
RECURSIVE RunLength(_, _, _, _)
RunLength(w, ord, desc, k) ==
  IF k > Len(w) THEN Len(w)
  ELSE LET o == ord[w[k]][w[k - 1]]
       IN IF (desc /\ o >= 0) \/ (~desc /\ o < 0) THEN k - 1
          ELSE RunLength(w, ord, desc, k + 1)

Reverse(a) == [i \in 1..Len(a) |-> a[Len(a) + 1 - i]]

RECURSIVE BinarySearch(_, _, _, _, _)
BinarySearch(w, ord, pivot, left, right) ==
  IF left >= right THEN left
  ELSE LET mid == left + ((right - left) \div 2)
       IN IF ord[pivot][w[mid]] < 0
            THEN BinarySearch(w, ord, pivot, left, mid)
            ELSE BinarySearch(w, ord, pivot, mid + 1, right)

RECURSIVE BinaryInsertionSort(_, _, _)
BinaryInsertionSort(w, ord, start) ==
  IF start > Len(w) THEN w
  ELSE LET pivot == w[start]
           left == BinarySearch(w, ord, pivot, 1, start)
           moved == SubSeq(w, 1, left - 1) \o <<pivot>> \o SubSeq(w, left, start - 1)
                      \o SubSeq(w, start + 1, Len(w))
       IN BinaryInsertionSort(moved, ord, start + 1)

SortIndices(n, ord) ==
  LET w == [i \in 1..n |-> i]
  IN IF n < 2 THEN w
     ELSE LET desc == ord[2][1] < 0
              run == RunLength(w, ord, desc, 3)
              made == IF desc THEN Reverse(SubSeq(w, 1, run)) \o SubSeq(w, run + 1, n)
                      ELSE w
          IN BinaryInsertionSort(made, ord, run + 1)

\* the comparator's number as the sort reads it
CompareSign(c) == IF c.nan THEN 0 ELSE IF c.v < 0 THEN -1 ELSE IF c.v > 0 THEN 1 ELSE 0

\* sort(comparefn) with comparefn given as Cmp
SortBy(a, Cmp(_, _)) ==
  LET n == Len(a)
      ord == [i \in 1..n |-> [j \in 1..n |-> CompareSign(Cmp(a[i], a[j]))]]
      p == SortIndices(n, ord)
  IN [k \in 1..n |-> a[p[k]]]

\* Array.prototype.flat() of an array of arrays
RECURSIVE Flat(_)
Flat(arrs) == IF arrs = <<>> THEN <<>> ELSE Head(arrs) \o Flat(Tail(arrs))

\* Array.prototype.filter(keep)
Filter(a, Keep(_)) == SelectSeq(a, Keep)

\* ------------------------------------------------------------- sources
\* the source registry of every route holds two descriptors, in this order
NewsUrls == <<"https://a.example/rss", "https://b.example/rss">>
ChannelIds == <<"UC-a", "UC-b">>
ProductSources == <<[sitemap |-> "https://pickaboo.example/sitemap.xml", domain |-> "pickaboo.example"],
                    [sitemap |-> "https://daraz.example/sitemap.xml", domain |-> "daraz.example"]>>
Slots == DOMAIN NewsUrls
Routes == {"news", "video", "product"}
ReqIds == {"r1", "r2"}

\* new URL(url).hostname
Hostname(url) ==
  CASE url = "https://a.example/rss" -> "a.example"
    [] url = "https://b.example/rss" -> "b.example"
    [] OTHER -> "invalid"

\* new Date(s).getTime(): the date strings of the model and their epoch
\* order; any other text is an invalid date
DateA == "Mon, 01 Jan 2024 00:00:00 GMT"
DateB == "Tue, 02 Jan 2024 00:00:00 GMT"
getTime(s) ==
  CASE s = DateA -> Num(1)
    [] s = DateB -> Num(2)
    [] OTHER -> NaN

\* an xml2js child element list: <<>> when the element is missing
\* x?.[0] || ""
FirstOrEmpty(arr) == IF arr = <<>> THEN "" ELSE arr[1]

\* ------------------------------------------------------ news: the data
\* raw <item> elements as xml2js yields them
NewsEntry(title, link, pubDate, media) ==
  [title |-> title, link |-> link, pubDate |-> pubDate, description |-> <<"d">>,
   media |-> media, guid |-> <<>>]
NewsKinds ==
  { NewsEntry(<<"dated-1">>, <<"https://a.example/og">>, <<DateA>>, <<>>),
    NewsEntry(<<"dated-2">>, <<"https://a.example/pic">>, <<DateB>>, <<"m.jpg">>),
    NewsEntry(<<"undated">>, <<"https://a.example/down">>, <<"soon">>, <<>>),
    NewsEntry(<<"no-date">>, <<"https://a.example/og">>, <<>>, <<>>),
    NewsEntry(<<>>, <<"https://a.example/og">>, <<DateB>>, <<>>),
    NewsEntry(<<"no-link">>, <<"">>, <<DateB>>, <<"m.jpg">>) }
NewsPlainKinds ==
  { e \in NewsKinds : e.title \in {<<"dated-1">>, <<"dated-2">>} }

\* what the page behind an item's link answers to the enrichment fetch: og
\* is the content of its og:image tag ("" when the markup has none); a page
\* that is not up may answer, or fail in one of the ways of PageOutcomes
PageAt(link) ==
  CASE link = "https://a.example/og" -> [up |-> TRUE, og |-> "og.jpg"]
    [] link = "https://a.example/pic" -> [up |-> TRUE, og |-> ""]
    [] OTHER -> [up |-> FALSE, og |-> ""]
PageOutcomes(link) == IF PageAt(link).up THEN {"ok"} ELSE {"neterr", "http", "ok"}

\* ------------------------------------------------ news: fetch + normalize
Null == "<null>"
OrEmpty(x) == IF x = Null THEN "" ELSE x

\* the slip of letting a failed page fetch escape: the failure is the image
fetchOGImageFromPage_Leaks(link, outcome) ==
  IF outcome # "ok" THEN outcome
  ELSE IF PageAt(link).og = "" THEN Null ELSE PageAt(link).og

\* fetchOGImageFromPage(link): outcome says whether the fetch throws, the
\* status is not ok, or the page answers
fetchOGImageFromPage(link, outcome) ==
  IF outcome = "neterr" THEN Null
  ELSE IF outcome = "http" THEN Null
  ELSE IF PageAt(link).og = "" THEN Null ELSE PageAt(link).og

NewsItemOf(item, domain) ==
  LET title == FirstOrEmpty(item.title)
      link == FirstOrEmpty(item.link)
      image == FirstOrEmpty(item.media)
  IN [title |-> title, link |-> link,
      description |-> FirstOrEmpty(item.description),
      pubDate |-> FirstOrEmpty(item.pubDate),
      guid |-> FirstOrEmpty(item.guid),
      image |-> image, domain |-> domain,
      needsImage |-> (image = "" /\ link # "")]

HasTitleAndLink(item) == item.title # "" /\ item.link # ""

\* fetchRSSFeed(url): outcome says how the fetch of a source that is down
\* fails (the fetch throws, the status is not ok, the XML does not parse)
fetchRSSFeed(url, answer, outcome) ==
  IF outcome = "neterr" THEN <<>>
  ELSE IF outcome = "http" THEN <<>>
  ELSE IF outcome = "badxml" THEN <<>>
  ELSE LET items == answer.items
           domain == Hostname(url)
           newsItems == [i \in 1..Len(items) |-> NewsItemOf(items[i], domain)]
       IN Filter(newsItems, HasTitleAndLink)

HasPubDate(item) == item.pubDate # ""

\* the comparator without its invalid-date branches, as the videos handler has it
NewsCompare_DatesOnly(a, b) == NumSub(getTime(b.pubDate), getTime(a.pubDate))

NewsCompare(a, b) ==
  LET dateA == getTime(a.pubDate)
      dateB == getTime(b.pubDate)
  IN IF isNaN(dateA) /\ isNaN(dateB) THEN Num(0)
     ELSE IF isNaN(dateA) THEN Num(1)
     ELSE IF isNaN(dateB) THEN Num(-1)
     ELSE NumSub(dateB, dateA)

\* allFeeds.flat().filter(pubDate).sort(...)
NewsAggregate(allFeeds) == SortBy(Filter(Flat(allFeeds), HasPubDate), NewsCompare)

\* ----------------------------------------------------- videos: the data
IsoA == "2024-01-01T00:00:00+00:00"
IsoB == "2024-01-02T00:00:00+00:00"
\* new Date(published).getTime() on the feed's ISO dates
getTimeIso(s) ==
  CASE s = IsoA -> Num(1)
    [] s = IsoB -> Num(2)
    [] OTHER -> NaN

\* raw <entry> elements as xml2js yields them; stats is the list of
\* media:statistics elements, each with its attribute object
VideoEntry(title, published, stats) ==
  [id |-> <<"yt:video">>, videoId |-> <<"vid">>, title |-> title,
   author |-> <<"channel">>, published |-> published, stats |-> stats]
VideoKinds ==
  { VideoEntry(<<"clip-1">>, <<IsoA>>, <<[views |-> "12"]>>),
    VideoEntry(<<"clip-2">>, <<IsoB>>, <<[views |-> ""]>>),
    VideoEntry(<<"premiere">>, <<"soon">>, <<[views |-> "7"]>>),
    VideoEntry(<<"">>, <<IsoB>>, <<[views |-> "3"]>>),
    VideoEntry(<<"no-stats">>, <<IsoA>>, <<>>) }
VideoPlainKinds ==
  { e \in VideoKinds : e.title \in {<<"clip-1">>, <<"clip-2">>} }

\* reading [0] of a missing element list throws a TypeError
EntryThrows(entry) ==
  \/ entry.id = <<>> \/ entry.videoId = <<>> \/ entry.title = <<>>
  \/ entry.author = <<>> \/ entry.published = <<>> \/ entry.stats = <<>>

VideoItemOf(entry) ==
  [id |-> entry.id[1], videoId |-> entry.videoId[1], title |-> entry.title[1],
   thumbnail |-> <<"https://i.ytimg.com/vi/", entry.videoId[1], "/mqdefault.jpg">>,
   channelName |-> entry.author[1], published |-> entry.published[1],
   views |-> IF entry.stats[1].views = "" THEN "0" ELSE entry.stats[1].views]

\* the slip of catching per entry instead of per channel: the entries read
\* before the one that throws are kept
RECURSIVE ReadableEntries(_)
ReadableEntries(entries) ==
  IF entries = <<>> \/ EntryThrows(Head(entries)) THEN <<>>
  ELSE <<VideoItemOf(Head(entries))>> \o ReadableEntries(Tail(entries))
fetchChannel_KeepsPartial(channelId, answer, outcome) ==
  IF outcome # "ok" THEN <<>> ELSE ReadableEntries(answer.items)

\* the per-channel async function of the videos GET
fetchChannel(channelId, answer, outcome) ==
  IF outcome = "neterr" THEN <<>>
  ELSE IF outcome = "http" THEN <<>>
  ELSE IF outcome = "badxml" THEN <<>>
  ELSE LET entries == answer.items
       IN IF \E i \in 1..Len(entries) : EntryThrows(entries[i]) THEN <<>>
          ELSE [i \in 1..Len(entries) |-> VideoItemOf(entries[i])]

VideoCompare(a, b) == NumSub(getTimeIso(b.published), getTimeIso(a.published))

\* allVideos.flat().sort(...)
VideoAggregate(allVideos) == SortBy(Flat(allVideos), VideoCompare)

\* --------------------------------------------------- products: the data
\* the product pages the sitemaps can list, per registry slot
ProductUrls ==
  <<{"https://pickaboo.example/apple", "https://pickaboo.example/Banana",
     "https://pickaboo.example/blank", "https://pickaboo.example/down"},
    {"https://daraz.example/apple", "https://daraz.example/banana",
     "https://daraz.example/blank", "https://daraz.example/down"}>>
ProductPlainUrls ==
  <<{"https://pickaboo.example/apple", "https://pickaboo.example/Banana"},
    {"https://daraz.example/apple", "https://daraz.example/banana"}>>

PickabooSelectors ==
  <<".price-current", ".product-price", "[class*=price]", "h2:contains", "span:contains">>
DarazSelectors ==
  <<"[data-testid=price-current]", ".pdp-price", "#module_product_price_1 span",
    "[class*=price]", "span:contains">>

\* the trimmed text of the first element a selector finds: raw is the
\* text, marker says whether it holds the currency sign or "Tk", money is
\* what the amount pattern matches in it ("" when it matches nothing)
NoText == [raw |-> "", marker |-> FALSE, money |-> ""]
Text(raw, marker, money) == [raw |-> raw, marker |-> marker, money |-> money]

Html(ogTitle, ogImage, texts) ==
  [kind |-> "html", ogTitle |-> ogTitle, ogDescription |-> "about", ogImage |-> ogImage,
   texts |-> texts]

\* what a product URL answers to the scraper
ProductPageAt(url) ==
  CASE url = "https://pickaboo.example/apple" ->
         Html("apple", "https://cdn.example/a.jpg",
              [sel \in {".product-price"} |-> Text("Tk 1,200 only", TRUE, "Tk 1,200")])
    [] url = "https://pickaboo.example/Banana" ->
         Html("Banana", "/b.jpg",
              [sel \in {".price-current", "[class*=price]"} |->
                 IF sel = ".price-current" THEN Text("Call us", FALSE, "")
                 ELSE Text("Tk", TRUE, "")])
    [] url = "https://daraz.example/apple" ->
         Html("apple", "", [sel \in {".pdp-price"} |-> Text("BDT 90", FALSE, "")])
    [] url = "https://daraz.example/banana" ->
         Html("banana", "/c.jpg",
              [sel \in {".pdp-price", "span:contains"} |->
                 IF sel = ".pdp-price" THEN Text("Tk 50", TRUE, "Tk 50")
                 ELSE Text("Tk 70", TRUE, "Tk 70")])
    [] url \in {"https://pickaboo.example/blank", "https://daraz.example/blank"} ->
         Html("  ", "", [sel \in {} |-> NoText])
    [] OTHER -> [kind |-> "neterr"]

\* s.trim() = ""
IsBlank(s) == s \in {"", " ", "  "}
\* domain.includes(word)
Includes(domain, word) ==
  \/ (word = "pickaboo" /\ domain = "pickaboo.example")
  \/ (word = "daraz" /\ domain = "daraz.example")
\* s.startsWith("http")
StartsWithHttp(s) == s \in {"https://cdn.example/a.jpg"}

\* Buffer.from(url).toString("base64").slice(0, 16): the base64 text of the
\* first twelve bytes of the URL
ProductId(url) ==
  CASE url \in ProductUrls[1] -> "aHR0cHM6Ly9waWNr"
    [] url \in ProductUrls[2] -> "aHR0cHM6Ly9kYXJh"
    [] OTHER -> "aHR0cHM6Ly8="

\* $(selector).first().text().trim()
TextOf(page, selector) ==
  IF selector \in DOMAIN page.texts THEN page.texts[selector] ELSE NoText

\* the for loop over priceSelectors, from position i on
RECURSIVE PriceFrom(_, _, _)
PriceFrom(page, selectors, i) ==
  IF i > Len(selectors) THEN "Price not available"
  ELSE LET priceText == TextOf(page, selectors[i])
       IN IF priceText.raw # "" /\ priceText.marker
            THEN (IF priceText.money # "" THEN priceText.money ELSE priceText.raw)
            ELSE PriceFrom(page, selectors, i + 1)

PriceOf(page, domain) ==
  IF Includes(domain, "pickaboo") THEN PriceFrom(page, PickabooSelectors, 1)
  ELSE IF Includes(domain, "daraz") THEN PriceFrom(page, DarazSelectors, 1)
  ELSE "Price not available"

NoProduct == [null |-> TRUE]

\* the body of the limited function of scrapeProductDataFast
scrapeProduct(url, domain) ==
  LET page == ProductPageAt(url)
  IN IF page.kind = "neterr" THEN NoProduct
     ELSE IF IsBlank(page.ogTitle) THEN NoProduct
     ELSE [null |-> FALSE,
           id |-> ProductId(url),
           title |-> page.ogTitle,
           description |-> page.ogDescription,
           image |-> IF StartsWithHttp(page.ogImage) THEN <<page.ogImage>>
                     ELSE IF page.ogImage # "" THEN <<"https://", domain, page.ogImage>>
                     ELSE <<>>,
           price |-> PriceOf(page, domain),
           url |-> url,
           domain |-> domain]

\* fetchSitemapFast(sitemapUrl) against what the sitemap URL answers
fetchSitemapFast(answer, outcome) ==
  IF outcome = "neterr" THEN <<>>
  ELSE IF outcome = "http" THEN <<>>
  ELSE IF outcome = "badxml" THEN <<>>
  ELSE LET entries == SelectSeq(answer.items, LAMBDA e : e.loc # <<>> /\ e.loc[1] # "")
           urls == [i \in 1..Len(entries) |-> entries[i].loc[1]]
       IN Take(urls, SitemapCap)

\* a.localeCompare(b): the collation keys of the model's titles (letters
\* first, lower case before upper case on a tie)
CollationKey(title) ==
  CASE title = "apple" -> <<1, 0>>
    [] title = "banana" -> <<2, 0>>
    [] title = "Banana" -> <<2, 1>>
    [] OTHER -> <<0, 0>>
localeCompare(a, b) ==
  LET ka == CollationKey(a)
      kb == CollationKey(b)
  IN IF ka[1] # kb[1] THEN Num(ka[1] - kb[1]) ELSE Num(ka[2] - kb[2])

\* the slip of comparing the titles the other way round
ProductCompare_Reversed(a, b) == localeCompare(b.title, a.title)

\* (a, b) => a.title.localeCompare(b.title)
ProductCompare(a, b) == localeCompare(a.title, b.title)

IsProduct(p) == ~p.null

\* ---------------------------------------------------------------- state
VARIABLES
  route,        \* which of the three route modules this process serves
  web,          \* per registry slot: what the source answers to its fetch
  query,        \* per request: the offset and limit query parameters
  pc,           \* per request: "off", "idle", "fetching", "enriching", "done"
  params,       \* per request: the handler's parsed offset and limit
  slots,        \* per request: the Promise.all result array, one slot per source
  arrival,      \* per request: the slots in the order their results arrived
  listed,       \* per request and slot: the sitemap fetch has settled
  tasks,        \* per request and slot: the scrape tasks handed to the pool
  queue,        \* the pool's queue of waiting tasks
  activeCount,  \* the pool's count of running tasks
  allItems,     \* per request: the full sorted aggregate
  enrich,       \* per request: the enrichment pass over the page
  resp,         \* per request: the response sent
  sent,         \* per request: how many responses were sent
  pager,        \* a caller that reads the aggregate page after page
  ui            \* the page component of the browser: its React state

clientVars == <<pager, ui>>
envVars == <<route, web, query, clientVars>>
poolVars == <<listed, tasks, queue, activeCount>>
slotVars == <<slots, arrival>>
vars == <<route, web, query, pc, params, slots, arrival, listed, tasks, queue, activeCount,
          allItems, enrich, resp, sent, pager, ui>>

\* ------------------------------------------------------- the inputs
\* the identifiers a feed gives its entries, by registry slot and position
GuidNames == << <<"a-1", "a-2", "a-3", "a-4", "a-5">>, <<"b-1", "b-2", "b-3", "b-4", "b-5">> >>

WithIds(rt, s, f) ==
  IF rt = "news" THEN [i \in DOMAIN f |-> [f[i] EXCEPT !.guid = <<GuidNames[s][i]>>]]
  ELSE IF rt = "video" THEN [i \in DOMAIN f |-> [f[i] EXCEPT !.videoId = <<GuidNames[s][i]>>]]
  ELSE f

SitemapEntries(s) == {[loc |-> <<u>>] : u \in ProductUrls[s]} \cup {[loc |-> <<>>]}
Kinds(rt, s) ==
  IF rt = "news" THEN NewsKinds
  ELSE IF rt = "video" THEN VideoKinds
  ELSE SitemapEntries(s)
PlainKinds(rt, s) ==
  IF rt = "news" THEN NewsPlainKinds
  ELSE IF rt = "video" THEN VideoPlainKinds
  ELSE {[loc |-> <<u>>] : u \in ProductPlainUrls[s]}

\* a source that is down, and the ways its fetch can then fail
Failures == {[kind |-> "down", items |-> <<>>]}
Outcomes(answer) == IF answer.kind = "down" THEN {"neterr", "http", "badxml"} ELSE {"ok"}
Documents(rt, s, kinds, n) ==
  {[kind |-> "doc", items |-> WithIds(rt, s, f)] : f \in [1..n -> kinds]}

\* every pair of answers whose documents hold at most MaxItems entries together
RichWebs(rt) ==
  UNION { { <<a1, a2>> :
              a1 \in Documents(rt, 1, Kinds(rt, 1), n1) \cup (IF n1 = 0 THEN Failures ELSE {}),
              a2 \in Failures \cup UNION { Documents(rt, 2, Kinds(rt, 2), n2) : n2 \in 0..(MaxItems - n1) } } :
          n1 \in 0..MaxItems }
\* the same with healthy sources and well-formed entries only
PlainWebs(rt) ==
  UNION { { <<a1, a2>> :
              a1 \in Documents(rt, 1, PlainKinds(rt, 1), n1),
              a2 \in UNION { Documents(rt, 2, PlainKinds(rt, 2), n2) : n2 \in 0..(MaxItems - n1) } } :
          n1 \in 0..MaxItems }
\* healthy sources holding exactly MaxItems well-formed entries together
FullWebs(rt) ==
  UNION { { <<a1, a2>> :
              a1 \in Documents(rt, 1, PlainKinds(rt, 1), n1),
              a2 \in Documents(rt, 2, PlainKinds(rt, 2), MaxItems - n1) } :
          n1 \in 0..MaxItems }

ParamValues ==
  {Absent, Given(<<>>), Given(<<"a", "b", "c">>)}
    \cup {Given(<<DigitChars[n + 1]>>) : n \in 0..MaxParam}
Queries == [offset : ParamValues, limit : ParamValues]
NoQuery == [offset |-> Absent, limit |-> Absent]

\* ------------------------------------------------------------ Init
NoParams == [offset |-> NaN, limit |-> NaN]
NoResponse == [status |-> 0, body |-> [error |-> ""]]
EmptySlots == [s \in Slots |-> [done |-> FALSE, items |-> <<>>]]

\* no paging caller and no page component: requests come as Init gives them
NoPager == [state |-> "none", size |-> 0, offset |-> 0, shown |-> <<>>, flags |-> <<>>, totals |-> <<>>]
NoUi == [state |-> "none"]

InitRequests(active) ==
  /\ pc = [r \in ReqIds |-> IF r \in active THEN "idle" ELSE "off"]
  /\ params = [r \in ReqIds |-> NoParams]
  /\ slots = [r \in ReqIds |-> EmptySlots]
  /\ arrival = [r \in ReqIds |-> <<>>]
  /\ listed = [r \in ReqIds |-> [s \in Slots |-> FALSE]]
  /\ tasks = [r \in ReqIds |-> [s \in Slots |-> <<>>]]
  /\ queue = <<>>
  /\ activeCount = 0
  /\ allItems = [r \in ReqIds |-> <<>>]
  /\ enrich = [r \in ReqIds |-> <<>>]
  /\ resp = [r \in ReqIds |-> NoResponse]
  /\ sent = [r \in ReqIds |-> 0]

\* one request: either any sources with a request that has no parameters,
\* or healthy well-formed sources with any parameters
Init ==
  /\ route \in Routes
  /\ \/ /\ web \in RichWebs(route)
        /\ query = [r \in ReqIds |-> NoQuery]
     \/ /\ web \in PlainWebs(route)
        /\ \E q \in Queries : query = [r \in ReqIds |-> IF r = "r1" THEN q ELSE NoQuery]
  /\ InitRequests({"r1"})
  /\ pager = NoPager
  /\ ui = NoUi

\* product pages of which some cannot be fetched (the request fails or runs
\* into its timeout), per registry slot
ProductFlakyUrls ==
  <<{"https://pickaboo.example/apple", "https://pickaboo.example/down"},
    {"https://daraz.example/banana", "https://daraz.example/down"}>>
FlakyKinds(s) == {[loc |-> <<u>>] : u \in ProductFlakyUrls[s]}
\* sitemaps listing MaxItems such pages together, or one sitemap listing
\* them all while the other cannot be fetched
FlakyWebs ==
  UNION { { <<a1, a2>> :
              a1 \in Documents("product", 1, FlakyKinds(1), n1),
              a2 \in Documents("product", 2, FlakyKinds(2), MaxItems - n1) } :
          n1 \in 0..MaxItems }
    \cup { <<a1, a2>> : a1 \in Documents("product", 1, FlakyKinds(1), MaxItems), a2 \in Failures }

\* two product requests served by the same process while pages fail
InitFlaky ==
  /\ route = "product"
  /\ web \in FlakyWebs
  /\ query = [r \in ReqIds |-> NoQuery]
  /\ InitRequests(ReqIds)
  /\ pager = NoPager
  /\ ui = NoUi

\* two product requests served by the same process
InitPool ==
  /\ route = "product"
  /\ web \in FullWebs("product")
  /\ query = [r \in ReqIds |-> NoQuery]
  /\ InitRequests(ReqIds)
  /\ pager = NoPager
  /\ ui = NoUi

\* ------------------------------------------------- the route handlers
\* Number.parseInt(searchParams.get(name) || fallback)
ParseIntOr(p, fallback) == parseInt(IF Truthy(p) THEN p.s ELSE fallback)
\* Number(searchParams.get(name) || fallback)
NumberOr(p, fallback) == IF Truthy(p) THEN NumberOfString(p.s) ELSE Num(fallback)

NewsParams(q) ==
  [offset |-> ParseIntOr(q.offset, <<"0">>), limit |-> ParseIntOr(q.limit, <<"3", "0">>)]
ProductParams(q) ==
  [offset |-> ParseIntOr(q.offset, <<"0">>), limit |-> ParseIntOr(q.limit, <<"2", "0">>)]
VideoParams(q) ==
  [offset |-> NumberOr(q.offset, VideoDefaultOffset), limit |-> NumberOr(q.limit, VideoDefaultLimit)]

ParseParams(rt, q) ==
  IF rt = "news" THEN NewsParams(q)
  ELSE IF rt = "product" THEN ProductParams(q)
  ELSE VideoParams(q)

\* the slip of counting the page instead of the aggregate
OkResponse_FromPage(rt, items, offset, limit, all) ==
  [status |-> 200,
   body |-> IF rt = "product"
              THEN [products |-> items,
                    hasMore |-> NumLess(NumAdd(offset, limit), Num(Len(items))),
                    total |-> Len(items)]
              ELSE [items |-> items,
                    hasMore |-> NumLess(NumAdd(offset, limit), Num(Len(items))),
                    total |-> Len(items)]]

\* NextResponse.json({items, hasMore, total}) of the news and video
\* handlers, NextResponse.json({products, hasMore, total}) of the product one
OkResponse(rt, items, offset, limit, all) ==
  [status |-> 200,
   body |-> IF rt = "product"
              THEN [products |-> items,
                    hasMore |-> NumLess(NumAdd(offset, limit), Num(Len(all))),
                    total |-> Len(all)]
              ELSE [items |-> items,
                    hasMore |-> NumLess(NumAdd(offset, limit), Num(Len(all))),
                    total |-> Len(all)]]
\* the slip of answering a failure in the success shape
ErrorResponse_EmptyPage(rt) ==
  [status |-> 200,
   body |-> IF rt = "product"
              THEN [products |-> <<>>, hasMore |-> FALSE, total |-> 0]
              ELSE [items |-> <<>>, hasMore |-> FALSE, total |-> 0]]

\* NextResponse.json({error}, {status: 500})
ErrorResponse(rt) ==
  [status |-> 500,
   body |-> [error |-> IF rt = "news" THEN "Failed to fetch RSS feeds"
                       ELSE IF rt = "product" THEN "Failed to fetch products"
                       ELSE "Failed to fetch videos"]]

\* the slip of an end index that is one too far: all.slice(offset, offset + limit + 1)
PageOf_EndInclusive(all, p) == Slice(all, p.offset, NumAdd(NumAdd(p.offset, p.limit), Num(1)))

\* the slip of passing the limit as the end index: all.slice(offset, limit)
PageOf_LimitAsEnd(all, p) == Slice(all, p.offset, p.limit)

\* all.slice(offset, offset + limit)
PageOf(all, p) == Slice(all, p.offset, NumAdd(p.offset, p.limit))

\* the slip of pushing each result as it arrives: the first free slot takes it
StoreResult_Push(slotsOfR, s, items) ==
  LET free == CHOOSE k \in Slots : ~slotsOfR[k].done /\ \A j \in Slots : j < k => slotsOfR[j].done
  IN [slotsOfR EXCEPT ![free] = [done |-> TRUE, items |-> items]]

\* Promise.all: the result of source s lands in slot s
StoreResult(slotsOfR, s, items) == [slotsOfR EXCEPT ![s] = [done |-> TRUE, items |-> items]]
\* the slip of racing the sources: the first result ends the wait
AllDone_First(slotsOfR) == \E s \in Slots : slotsOfR[s].done

\* await Promise.all(...): every slot holds its result
AllDone(slotsOfR) == \A s \in Slots : slotsOfR[s].done
Results(slotsOfR) == [s \in Slots |-> slotsOfR[s].items]

Send(r, response) ==
  /\ pc' = [pc EXCEPT ![r] = "done"]
  /\ resp' = [resp EXCEPT ![r] = response]
  /\ sent' = [sent EXCEPT ![r] = @ + 1]

\* the handler up to its first await on the sources: the parameters are
\* parsed, the source registry is imported (the import can fail) and one
\* fetch per source is started
GET(r) ==
  /\ pc[r] = "idle"
  /\ params' = [params EXCEPT ![r] = ParseParams(route, query[r])]
  /\ \E registryLoads \in BOOLEAN :
       IF registryLoads
         THEN /\ pc' = [pc EXCEPT ![r] = "fetching"]
              /\ UNCHANGED <<resp, sent>>
         ELSE Send(r, ErrorResponse(route))
  /\ UNCHANGED <<envVars, slotVars, poolVars, allItems, enrich>>

\* the slip of fetching the page of every item, flagged or not
EnrichStart_Everything(page) ==
  [i \in 1..Len(page) |-> [st |-> "pending", item |-> page[i]]]

\* enrichItemsWithImages: the items that are returned as they are and the
\* items whose page fetch is started
EnrichStart(page) ==
  [i \in 1..Len(page) |->
     IF ~page[i].needsImage \/ page[i].link = ""
       THEN [st |-> "kept", item |-> page[i]]
       ELSE [st |-> "pending", item |-> page[i]]]
\* the slip of rebuilding the item from the fetched page: the description
\* and the domain are not carried over
EnrichDone_Rebuilds(e, i, outcome) ==
  [e EXCEPT ![i] = [st |-> "done",
                    item |-> [e[i].item EXCEPT !.image = OrEmpty(fetchOGImageFromPage(e[i].item.link, outcome)),
                                               !.needsImage = FALSE,
                                               !.description = "",
                                               !.domain = "a.example"]]]

\* the continuation of the map callback after await fetchOGImageFromPage:
\* {...item, image: image || "", needsImage: false}
EnrichDone(e, i, outcome) ==
  [e EXCEPT ![i] = [st |-> "done",
                    item |-> [e[i].item EXCEPT !.image = OrEmpty(fetchOGImageFromPage(e[i].item.link, outcome)),
                                               !.needsImage = FALSE]]]
EnrichPending(e) == \E i \in 1..Len(e) : e[i].st = "pending"
EnrichedItems(e) == [i \in 1..Len(e) |-> e[i].item]

\* a feed fetch of the news handler settles; with the last one the
\* aggregate is sorted and sliced and the enrichment pass starts
NewsFeedSettle(r, s) ==
  /\ route = "news"
  /\ pc[r] = "fetching"
  /\ ~slots[r][s].done
  /\ \E outcome \in Outcomes(web[s]) :
     LET newSlots == StoreResult(slots[r], s, fetchRSSFeed(NewsUrls[s], web[s], outcome))
         all == NewsAggregate(Results(newSlots))
         started == EnrichStart(PageOf(all, params[r]))
     IN /\ slots' = [slots EXCEPT ![r] = newSlots]
        /\ arrival' = [arrival EXCEPT ![r] = Append(@, s)]
        /\ IF AllDone(newSlots)
             THEN /\ allItems' = [allItems EXCEPT ![r] = all]
                  /\ enrich' = [enrich EXCEPT ![r] = started]
                  /\ IF EnrichPending(started)
                       THEN /\ pc' = [pc EXCEPT ![r] = "enriching"]
                            /\ UNCHANGED <<resp, sent>>
                       ELSE Send(r, OkResponse(route, EnrichedItems(started), params[r].offset,
                                               params[r].limit, all))
             ELSE UNCHANGED <<allItems, enrich, pc, resp, sent>>
  /\ UNCHANGED <<envVars, params, poolVars>>

\* the page fetch of one item of the enrichment pass settles; with the last
\* one the response is sent
NewsEnrichSettle(r, i) ==
  /\ route = "news"
  /\ pc[r] = "enriching"
  /\ enrich[r][i].st = "pending"
  /\ \E outcome \in PageOutcomes(enrich[r][i].item.link) :
     LET e == EnrichDone(enrich[r], i, outcome)
     IN /\ enrich' = [enrich EXCEPT ![r] = e]
        /\ IF EnrichPending(e)
             THEN UNCHANGED <<pc, resp, sent>>
             ELSE Send(r, OkResponse(route, EnrichedItems(e), params[r].offset, params[r].limit,
                                     allItems[r]))
  /\ UNCHANGED <<envVars, params, slotVars, poolVars, allItems>>

\* a channel fetch of the videos handler settles; with the last one the
\* videos are sorted and sliced and the response is sent
VideoFeedSettle(r, s) ==
  /\ route = "video"
  /\ pc[r] = "fetching"
  /\ ~slots[r][s].done
  /\ \E outcome \in Outcomes(web[s]) :
     LET newSlots == StoreResult(slots[r], s, fetchChannel(ChannelIds[s], web[s], outcome))
         sortedVideos == VideoAggregate(Results(newSlots))
     IN /\ slots' = [slots EXCEPT ![r] = newSlots]
        /\ arrival' = [arrival EXCEPT ![r] = Append(@, s)]
        /\ IF AllDone(newSlots)
             THEN /\ allItems' = [allItems EXCEPT ![r] = sortedVideos]
                  /\ Send(r, OkResponse(route, PageOf(sortedVideos, params[r]), params[r].offset,
                                        params[r].limit, sortedVideos))
             ELSE UNCHANGED <<allItems, pc, resp, sent>>
  /\ UNCHANGED <<envVars, params, poolVars, enrich>>

\* --------------------------------------------------- the scrape pool
\* The pool is [tasks, queue, active]; a task is named <<r, s, i>>: the
\* i-th URL of source s of request r.
RunTask(pool, id) ==
  [pool EXCEPT !.tasks[id[1]][id[2]][id[3]].st = "running", !.active = @ + 1]

\* the slip of a pool that admits every task at once
HasRoom_Always(active) == TRUE

\* const limit = pLimit(5): a queued task may start while fewer than five run
HasRoom(active) == active < PoolSize

\* limit(fn): the task is queued and, once the calling code has yielded, the
\* head of the queue is started if the pool has room
LimitCall(pool, id) ==
  LET queued == [pool EXCEPT !.queue = Append(@, id)]
  IN IF HasRoom(queued.active) /\ queued.queue # <<>>
       THEN RunTask([queued EXCEPT !.queue = Tail(@)], Head(queued.queue))
       ELSE queued

\* urls.slice(0, 15).map(url => scrapeProductDataFast(url, domain)), from i on
RECURSIVE ScheduleFrom(_, _, _, _, _)
ScheduleFrom(pool, r, s, n, i) ==
  IF i > n THEN pool ELSE ScheduleFrom(LimitCall(pool, <<r, s, i>>), r, s, n, i + 1)

\* the slip of a pool that counts a settled task out but never starts a
\* waiting one
SettleTask_NoNext(pool, id, result) ==
  [pool EXCEPT !.tasks[id[1]][id[2]][id[3]] = [@ EXCEPT !.st = "done", !.result = result],
               !.active = @ - 1]

\* a task's function settled: its slot is freed and the head of the queue,
\* if any, takes it
SettleTask(pool, id, result) ==
  LET freed == [pool EXCEPT !.tasks[id[1]][id[2]][id[3]] = [@ EXCEPT !.st = "done", !.result = result],
                            !.active = @ - 1]
  IN IF freed.queue # <<>>
       THEN RunTask([freed EXCEPT !.queue = Tail(@)], Head(freed.queue))
       ELSE freed

Pool == [tasks |-> tasks, queue |-> queue, active |-> activeCount]
SetPool(pool) ==
  /\ tasks' = pool.tasks
  /\ queue' = pool.queue
  /\ activeCount' = pool.active

TasksDone(ts) == \A i \in 1..Len(ts) : ts[i].st = "done"
\* products.filter(p => p !== null)
ScrapedProducts(ts) == Filter([i \in 1..Len(ts) |-> ts[i].result], IsProduct)

\* allProducts.push(...) of every slot in turn, then sort by title
ProductAggregate(allResults) == SortBy(Flat(allResults), ProductCompare)

\* the source's async function ends: its products land in its slot, and
\* with the last source the aggregate is sorted, sliced and sent
ProductSourceDone(r, s, products) ==
  LET newSlots == StoreResult(slots[r], s, products)
      allProducts == ProductAggregate(Results(newSlots))
  IN /\ slots' = [slots EXCEPT ![r] = newSlots]
     /\ arrival' = [arrival EXCEPT ![r] = Append(@, s)]
     /\ IF AllDone(newSlots)
          THEN /\ allItems' = [allItems EXCEPT ![r] = allProducts]
               /\ Send(r, OkResponse(route, PageOf(allProducts, params[r]), params[r].offset,
                                     params[r].limit, allProducts))
          ELSE UNCHANGED <<allItems, pc, resp, sent>>

\* a sitemap fetch settles: its first 15 URLs are handed to the pool
SitemapSettle(r, s) ==
  /\ route = "product"
  /\ pc[r] = "fetching"
  /\ ~listed[r][s]
  /\ \E outcome \in Outcomes(web[s]) :
     LET urls == Take(fetchSitemapFast(web[s], outcome), ScrapeCap)
         created == [Pool EXCEPT !.tasks[r][s] =
                       [i \in 1..Len(urls) |-> [st |-> "queued", url |-> urls[i], result |-> NoProduct]]]
     IN /\ listed' = [listed EXCEPT ![r][s] = TRUE]
        /\ SetPool(ScheduleFrom(created, r, s, Len(urls), 1))
        /\ IF urls = <<>>
             THEN ProductSourceDone(r, s, <<>>)
             ELSE UNCHANGED <<slotVars, allItems, pc, resp, sent>>
  /\ UNCHANGED <<envVars, params, enrich>>

\* the page fetch of a running scrape task settles
ScrapeSettle(r, s, i) ==
  /\ route = "product"
  /\ i \in DOMAIN tasks[r][s]
  /\ tasks[r][s][i].st = "running"
  /\ LET result == scrapeProduct(tasks[r][s][i].url, ProductSources[s].domain)
         pool == SettleTask(Pool, <<r, s, i>>, result)
     IN /\ SetPool(pool)
        /\ IF TasksDone(pool.tasks[r][s])
             THEN ProductSourceDone(r, s, ScrapedProducts(pool.tasks[r][s]))
             ELSE UNCHANGED <<slotVars, allItems, pc, resp, sent>>
  /\ UNCHANGED <<envVars, params, listed, enrich>>

\* ------------------------------------------------- callers of the API
\* data.items or data.products: the page a successful response carries
PageIn(response) ==
  IF "products" \in DOMAIN response.body THEN response.body.products ELSE response.body.items

\* `${n}` in the request URL: the decimal digits of a count
RECURSIVE ToDigits(_)
ToDigits(n) ==
  IF n < 10 THEN <<DigitChars[n + 1]>>
  ELSE ToDigits(n \div 10) \o <<DigitChars[(n % 10) + 1]>>
\* fetch(`...?offset=${offset}&limit=${limit}`)
QueryOf(offset, limit) == [offset |-> Given(ToDigits(offset)), limit |-> Given(ToDigits(limit))]

\* a request with query q reaches the handler as invocation r
StartRequest(r, q) ==
  /\ query' = [query EXCEPT ![r] = q]
  /\ pc' = [pc EXCEPT ![r] = "idle"]
  /\ params' = [params EXCEPT ![r] = NoParams]
  /\ slots' = [slots EXCEPT ![r] = EmptySlots]
  /\ arrival' = [arrival EXCEPT ![r] = <<>>]
  /\ listed' = [listed EXCEPT ![r] = [s \in Slots |-> FALSE]]
  /\ tasks' = [tasks EXCEPT ![r] = [s \in Slots |-> <<>>]]
  /\ allItems' = [allItems EXCEPT ![r] = <<>>]
  /\ enrich' = [enrich EXCEPT ![r] = <<>>]
  /\ resp' = [resp EXCEPT ![r] = NoResponse]
  /\ sent' = [sent EXCEPT ![r] = 0]
  /\ UNCHANGED <<route, web, queue, activeCount>>

\* the response of invocation r was delivered: the invocation is over
EndRequest(r) ==
  /\ query' = [query EXCEPT ![r] = NoQuery]
  /\ pc' = [pc EXCEPT ![r] = "off"]
  /\ params' = [params EXCEPT ![r] = NoParams]
  /\ slots' = [slots EXCEPT ![r] = EmptySlots]
  /\ arrival' = [arrival EXCEPT ![r] = <<>>]
  /\ listed' = [listed EXCEPT ![r] = [s \in Slots |-> FALSE]]
  /\ tasks' = [tasks EXCEPT ![r] = [s \in Slots |-> <<>>]]
  /\ allItems' = [allItems EXCEPT ![r] = <<>>]
  /\ enrich' = [enrich EXCEPT ![r] = <<>>]
  /\ resp' = [resp EXCEPT ![r] = NoResponse]
  /\ sent' = [sent EXCEPT ![r] = 0]
  /\ UNCHANGED <<route, web, queue, activeCount>>

\* the page sizes a paging caller asks for
PageSizes == 1..MaxParam

\* a caller that reads the list page by page: offset 0, L, 2L, ... with the
\* same limit L, one call after the other, until a page says hasMore = false
InitPaging ==
  /\ route \in Routes
  /\ web \in PlainWebs(route)
  /\ query = [r \in ReqIds |-> NoQuery]
  /\ InitRequests({})
  /\ \E size \in PageSizes :
       pager = [state |-> "idle", size |-> size, offset |-> 0, shown |-> <<>>,
                flags |-> <<>>, totals |-> <<>>]
  /\ ui = NoUi

PagerCall ==
  /\ pager.state = "idle"
  /\ StartRequest("r1", QueryOf(pager.offset, pager.size))
  /\ pager' = [pager EXCEPT !.state = "waiting"]
  /\ UNCHANGED ui

PagerReceive ==
  /\ pager.state = "waiting"
  /\ pc["r1"] = "done"
  /\ pager' =
       IF resp["r1"].status # 200 THEN [pager EXCEPT !.state = "failed"]
       ELSE [pager EXCEPT !.state = IF resp["r1"].body.hasMore THEN "idle" ELSE "finished",
                          !.offset = @ + pager.size,
                          !.shown = @ \o PageIn(resp["r1"]),
                          !.flags = Append(@, resp["r1"].body.hasMore),
                          !.totals = Append(@, resp["r1"].body.total)]
  /\ UNCHANGED <<route, web, query, ui, pc, params, slotVars, poolVars, allItems, enrich, resp, sent>>

\* ------------------------------------------------- the page components
\* HomePage, ProductPage and VideosPage: the limits of the first load and
\* of a load-more
InitialLimit(rt) == IF rt = "product" THEN 12 ELSE 30
MoreLimit(rt) == IF rt = "product" THEN 12 ELSE 10

\* what a render's closures hold of the state
Rendered(u) == [length |-> Len(u.items), hasMore |-> u.hasMore, loadingMore |-> u.loadingMore]

\* useState(...): the component before it mounts; seen is what the scroll
\* listener and loadMore in effect captured at their render, calls says
\* which load each request in flight belongs to, mores counts load-mores
NewUi ==
  [state |-> "unmounted", items |-> <<>>, loading |-> TRUE, loadingMore |-> FALSE,
   hasMore |-> TRUE, error |-> FALSE,
   seen |-> [length |-> 0, hasMore |-> TRUE, loadingMore |-> FALSE],
   calls |-> [r \in ReqIds |-> "none"], mores |-> 0]

InitClient ==
  /\ route \in Routes
  /\ web \in FullWebs(route)
  /\ query = [r \in ReqIds |-> NoQuery]
  /\ InitRequests({})
  /\ pager = NoPager
  /\ ui = NewUi

\* the first render commits and its effects run: loadInitial sends the
\* first request and the scroll listener of this render is registered
Mount(r) ==
  /\ ui.state = "unmounted"
  /\ StartRequest(r, QueryOf(0, InitialLimit(route)))
  /\ ui' = [ui EXCEPT !.state = "page", !.loading = TRUE, !.error = FALSE,
                      !.seen = Rendered(ui), !.calls[r] = "initial"]
  /\ UNCHANGED pager

\* a re-render commits and its effects run: the listener and loadMore in
\* effect are the ones of the current state
Commit ==
  /\ ui.state = "page"
  /\ ui.seen # Rendered(ui)
  /\ ui' = [ui EXCEPT !.seen = Rendered(ui)]
  /\ UNCHANGED <<route, web, query, pager, pc, params, slotVars, poolVars, allItems, enrich,
                 resp, sent>>

\* a scroll event near the bottom: handleScroll and loadMore test the
\* hasMore and loadingMore of their render, then the next page is asked for
\* at the length of the list of that render
Scroll(r) ==
  /\ ui.state = "page"
  /\ ui.calls[r] = "none"
  /\ ui.mores < MaxScrolls
  /\ ui.seen.hasMore /\ ~ui.seen.loadingMore
  /\ StartRequest(r, QueryOf(ui.seen.length, MoreLimit(route)))
  /\ ui' = [ui EXCEPT !.loadingMore = TRUE, !.calls[r] = "more", !.mores = @ + 1]
  /\ UNCHANGED pager

\* the response of the first load arrives: loadInitial continues
ReceiveInitial(r) ==
  /\ ui.state = "page"
  /\ ui.calls[r] = "initial"
  /\ pc[r] = "done"
  /\ ui' = IF resp[r].status = 200
             THEN [ui EXCEPT !.items = PageIn(resp[r]), !.hasMore = resp[r].body.hasMore,
                             !.loading = FALSE, !.calls[r] = "none"]
             ELSE [ui EXCEPT !.error = TRUE, !.loading = FALSE, !.calls[r] = "none"]
  /\ EndRequest(r)
  /\ UNCHANGED pager

\* the slip of resetting loadingMore after the success path only, without
\* the finally block
ReceiveMore_NoFinally(r) ==
  /\ ui.state = "page"
  /\ ui.calls[r] = "more"
  /\ pc[r] = "done"
  /\ ui' = IF resp[r].status = 200
             THEN [ui EXCEPT !.items = @ \o PageIn(resp[r]), !.hasMore = resp[r].body.hasMore,
                             !.loadingMore = FALSE, !.calls[r] = "none"]
             ELSE [ui EXCEPT !.calls[r] = "none"]
  /\ EndRequest(r)
  /\ UNCHANGED pager

\* the response of a load-more arrives: loadMore continues
ReceiveMore(r) ==
  /\ ui.state = "page"
  /\ ui.calls[r] = "more"
  /\ pc[r] = "done"
  /\ ui' = IF resp[r].status = 200
             THEN [ui EXCEPT !.items = @ \o PageIn(resp[r]), !.hasMore = resp[r].body.hasMore,
                             !.loadingMore = FALSE, !.calls[r] = "none"]
             ELSE [ui EXCEPT !.loadingMore = FALSE, !.calls[r] = "none"]
  /\ EndRequest(r)
  /\ UNCHANGED pager

\* ------------------------------------------------------ specifications
Next ==
  \/ \E r \in ReqIds : GET(r)
  \/ \E r \in ReqIds, s \in Slots : NewsFeedSettle(r, s)
  \/ \E r \in ReqIds : \E i \in DOMAIN enrich[r] : NewsEnrichSettle(r, i)
  \/ \E r \in ReqIds, s \in Slots : VideoFeedSettle(r, s)
  \/ \E r \in ReqIds, s \in Slots : SitemapSettle(r, s)
  \/ \E r \in ReqIds, s \in Slots : \E i \in DOMAIN tasks[r][s] : ScrapeSettle(r, s, i)

Spec == Init /\ [][Next]_vars

NextPool ==
  \/ \E r \in ReqIds : GET(r)
  \/ \E r \in ReqIds, s \in Slots : SitemapSettle(r, s)
  \/ \E r \in ReqIds, s \in Slots : \E i \in DOMAIN tasks[r][s] : ScrapeSettle(r, s, i)

SpecPool == InitPool /\ [][NextPool]_vars

\* a step of the product pipeline is possible: a request waits for its
\* handler, a sitemap fetch is in flight or a scrape is running (the guards
\* of GET, SitemapSettle and ScrapeSettle)
PoolBusy ==
  /\ route = "product"
  /\ \E r \in ReqIds :
       \/ pc[r] = "idle"
       \/ pc[r] = "fetching" /\ \E s \in Slots : ~listed[r][s]
       \/ \E s \in Slots : \E i \in DOMAIN tasks[r][s] : tasks[r][s][i].st = "running"

\* the event loop runs a callback that is ready, and every fetch that was
\* started settles (with a response, a failure or the 10 s timeout of
\* axios): as long as a step is possible one is taken.  This is weak
\* fairness of NextPool, written with the enabling condition spelled out.
PoolFairness == []<>(~PoolBusy) \/ []<><<NextPool>>_vars

SpecProgress == InitFlaky /\ [][NextPool]_vars /\ PoolFairness

NextPaging ==
  \/ PagerCall
  \/ PagerReceive
  \/ \E r \in ReqIds : GET(r)
  \/ \E r \in ReqIds, s \in Slots : NewsFeedSettle(r, s)
  \/ \E r \in ReqIds : \E i \in DOMAIN enrich[r] : NewsEnrichSettle(r, i)
  \/ \E r \in ReqIds, s \in Slots : VideoFeedSettle(r, s)
  \/ \E r \in ReqIds, s \in Slots : SitemapSettle(r, s)
  \/ \E r \in ReqIds, s \in Slots : \E i \in DOMAIN tasks[r][s] : ScrapeSettle(r, s, i)

SpecPaging == InitPaging /\ [][NextPaging]_vars

NextClient ==
  \/ \E r \in ReqIds : Mount(r)
  \/ Commit
  \/ \E r \in ReqIds : Scroll(r)
  \/ \E r \in ReqIds : ReceiveInitial(r)
  \/ \E r \in ReqIds : ReceiveMore(r)
  \/ \E r \in ReqIds : GET(r)
  \/ \E r \in ReqIds, s \in Slots : NewsFeedSettle(r, s)
  \/ \E r \in ReqIds : \E i \in DOMAIN enrich[r] : NewsEnrichSettle(r, i)
  \/ \E r \in ReqIds, s \in Slots : VideoFeedSettle(r, s)
  \/ \E r \in ReqIds, s \in Slots : SitemapSettle(r, s)
  \/ \E r \in ReqIds, s \in Slots : \E i \in DOMAIN tasks[r][s] : ScrapeSettle(r, s, i)

SpecClient == InitClient /\ [][NextClient]_vars

\* the page component over sources of one shape: the first source holds
\* MaxItems well-formed entries of one kind and the second holds none
UniformWebs(rt) ==
  UNION { { <<a1, a2>> :
              a1 \in Documents(rt, 1, {k}, MaxItems),
              a2 \in Documents(rt, 2, PlainKinds(rt, 2), 0) } :
          k \in PlainKinds(rt, 1) }

InitClientUniform ==
  /\ route \in Routes
  /\ web \in UniformWebs(route)
  /\ query = [r \in ReqIds |-> NoQuery]
  /\ InitRequests({})
  /\ pager = NoPager
  /\ ui = NewUi

SpecClientUniform == InitClientUniform /\ [][NextClient]_vars

\* ================================================================ claims
\* What the sources hold, read without the handlers' state: the items one
\* healthy source contributes, the aggregate of a list of contributions and
\* the response to a query.
SourceItems(rt, s, w) ==
  IF w[s].kind = "down" THEN <<>>
  ELSE IF rt = "news" THEN fetchRSSFeed(NewsUrls[s], w[s], "ok")
  ELSE IF rt = "video" THEN fetchChannel(ChannelIds[s], w[s], "ok")
  ELSE LET urls == Take(fetchSitemapFast(w[s], "ok"), ScrapeCap)
       IN Filter([i \in 1..Len(urls) |-> scrapeProduct(urls[i], ProductSources[s].domain)],
                 IsProduct)

AggregateOf(rt, results) ==
  IF rt = "news" THEN NewsAggregate(results)
  ELSE IF rt = "video" THEN VideoAggregate(results)
  ELSE ProductAggregate(results)

EnrichAll(page) ==
  [i \in 1..Len(page) |->
     IF page[i].needsImage /\ page[i].link # ""
       THEN [page[i] EXCEPT !.image = PageAt(page[i].link).og,
                            !.needsImage = FALSE]
       ELSE page[i]]

ExpectedResponse(rt, w, q) ==
  LET p == ParseParams(rt, q)
      all == AggregateOf(rt, [s \in Slots |-> SourceItems(rt, s, w)])
      page == PageOf(all, p)
  IN OkResponse(rt, IF rt = "news" THEN EnrichAll(page) ELSE page, p.offset, p.limit, all)

\* the request was answered after all its sources had settled
Answered(r) == pc[r] = "done" /\ AllDone(slots[r])
IsCount(n) == ~n.nan /\ n.v >= 0

\* the elements at positions [o, o + l) of a (counted from 0)
Window(a, o, l) == [i \in 1..Max(0, Min(Len(a), o + l) - o) |-> a[o + i]]
\* an item without the two fields the enrichment pass rewrites
Unenriched(rt, items) ==
  IF rt = "news"
    THEN [i \in 1..Len(items) |-> [items[i] EXCEPT !.image = "", !.needsImage = FALSE]]
    ELSE items

\* C1: for non-negative integer offset and limit, the page of a 200 response
\* is the aggregate's elements at positions [offset, offset + limit), in
\* order (for news up to the image and needsImage fields).
C1_PageIsWindow ==
  \A r \in ReqIds :
    (Answered(r) /\ IsCount(params[r].offset) /\ IsCount(params[r].limit)) =>
      /\ resp[r].status = 200
      /\ Unenriched(route, PageIn(resp[r]))
           = Unenriched(route, Window(allItems[r], params[r].offset.v, params[r].limit.v))

C1_Witness ==
  \E r \in ReqIds :
    /\ Answered(r)
    /\ query[r].offset = Given(<<"1">>)
    /\ query[r].limit = Given(<<"1">>)
    /\ Len(allItems[r]) = 3
    /\ Len(PageIn(resp[r])) = 1

\* the number of entries of the sources that reach the aggregate
ValidNews(e) ==
  /\ e.title # <<>> /\ e.title[1] # ""
  /\ e.link # <<>> /\ e.link[1] # ""
  /\ e.pubDate # <<>> /\ e.pubDate[1] # ""
ValidLoc(e, s) ==
  /\ e.loc # <<>>
  /\ ProductPageAt(e.loc[1]).kind = "html"
  /\ ~IsBlank(ProductPageAt(e.loc[1]).ogTitle)
ExpectedCount(rt, s, w) ==
  LET es == w[s].items
  IN IF w[s].kind = "down" THEN 0
     ELSE IF rt = "news" THEN Cardinality({i \in DOMAIN es : ValidNews(es[i])})
     ELSE IF rt = "video"
       THEN (IF \E i \in DOMAIN es : EntryThrows(es[i]) THEN 0 ELSE Len(es))
     ELSE Cardinality({i \in DOMAIN es : ValidLoc(es[i], s)})

\* C2: in a 200 response total is the length of the full aggregate, whatever
\* the offset, the limit and the page, and hasMore is offset + limit < total.
C2_TotalAndHasMore ==
  \A r \in ReqIds :
    Answered(r) =>
      /\ resp[r].body.total = Len(allItems[r])
      /\ resp[r].body.total = ExpectedCount(route, 1, web) + ExpectedCount(route, 2, web)
      /\ resp[r].body.hasMore =
           (/\ ~params[r].offset.nan /\ ~params[r].limit.nan
            /\ params[r].offset.v + params[r].limit.v < resp[r].body.total)

C2_Witness ==
  \E r \in ReqIds :
    /\ Answered(r)
    /\ resp[r].body.hasMore
    /\ resp[r].body.total = 3
    /\ Len(PageIn(resp[r])) = 1
    /\ params[r].offset.v = 1

\* the place of an item in the flattened results of the sources
FlatIndex(r, item) ==
  LET flat == Flat(Results(slots[r]))
  IN CHOOSE k \in 1..Len(flat) : flat[k] = item
NewsSorted(r) == route = "news" /\ pc[r] \in {"enriching", "done"} /\ AllDone(slots[r])

\* C3: in the news aggregate a before b means: with both dates valid,
\* time(a) >= time(b); an item with an invalid date is followed only by
\* items with invalid dates; items that compare equal keep the order of the
\* flattened per-source input.
C3_NewsOrder ==
  \A r \in ReqIds :
    NewsSorted(r) =>
      \A i, j \in 1..Len(allItems[r]) :
        i < j =>
          LET a == allItems[r][i]
              b == allItems[r][j]
              ta == getTime(a.pubDate)
              tb == getTime(b.pubDate)
          IN /\ (~ta.nan /\ ~tb.nan) => ta.v >= tb.v
             /\ ta.nan => tb.nan
             /\ ((ta.nan /\ tb.nan) \/ (~ta.nan /\ ~tb.nan /\ ta.v = tb.v))
                  => FlatIndex(r, a) < FlatIndex(r, b)

\* the sort had work to do: an invalid date stood before a valid one, two
\* items share a date, and the input was not in its final order
C3_Witness ==
  \E r \in ReqIds :
    /\ NewsSorted(r)
    /\ Len(allItems[r]) = 3
    /\ getTime(allItems[r][3].pubDate).nan
    /\ getTime(allItems[r][1].pubDate) = getTime(allItems[r][2].pubDate)
    /\ FlatIndex(r, allItems[r][3]) = 1
    /\ allItems[r][1].domain # allItems[r][2].domain

VideoSorted(r) == route = "video" /\ Answered(r)

\* C4: in the video aggregate a before b means: with both dates valid,
\* time(a) >= time(b); a video with an invalid date is followed only by
\* videos with invalid dates.
C4_VideoOrder ==
  \A r \in ReqIds :
    VideoSorted(r) =>
      \A i, j \in 1..Len(allItems[r]) :
        i < j =>
          LET ta == getTimeIso(allItems[r][i].published)
              tb == getTimeIso(allItems[r][j].published)
          IN /\ (~ta.nan /\ ~tb.nan) => ta.v >= tb.v
             /\ ta.nan => tb.nan

\* the fetch of source s fails: the source is down, or its payload makes
\* the normalizer throw
Failing(rt, s, w) ==
  \/ w[s].kind = "down"
  \/ rt = "video" /\ \E i \in DOMAIN w[s].items : EntryThrows(w[s].items[i])

\* C5: when one source fails and the other is healthy, the request is
\* answered 200 and its aggregate is the aggregate of the healthy source
\* alone.
C5_SourceIsolation ==
  \A r \in ReqIds :
    Answered(r) =>
      \A s, t \in Slots :
        (s # t /\ Failing(route, s, web) /\ ~Failing(route, t, web)) =>
          /\ resp[r].status = 200
          /\ allItems[r] = AggregateOf(route, <<SourceItems(route, t, web)>>)
          /\ resp[r].body.total = Len(SourceItems(route, t, web))
                                    - (IF route = "news"
                                         THEN Len(SelectSeq(SourceItems(route, t, web),
                                                            LAMBDA x : ~HasPubDate(x)))
                                         ELSE 0)

C5_Witness ==
  \E r \in ReqIds :
    /\ Answered(r)
    /\ Failing(route, 1, web) /\ ~Failing(route, 2, web)
    /\ web[1].items # <<>>
    /\ resp[r].status = 200
    /\ Len(allItems[r]) = 2

RunningTasks ==
  {id \in ReqIds \X Slots \X (1..ScrapeCap) :
     /\ id[3] <= Len(tasks[id[1]][id[2]])
     /\ tasks[id[1]][id[2]][id[3]].st = "running"}

\* C6: at most five scrape fetches are in flight at any moment, counted
\* over all sources and all requests of the process, and the pool's count
\* is the number in flight.
C6_PoolBound ==
  /\ Cardinality(RunningTasks) <= PoolSize
  /\ activeCount = Cardinality(RunningTasks)

\* five scrapes of two requests run while a sixth waits in the queue
C6_Witness ==
  /\ Cardinality(RunningTasks) = PoolSize
  /\ queue # <<>>
  /\ \A r \in ReqIds : \E id \in RunningTasks : id[1] = r

\* C7: the response is the one the sources' contents and the query alone
\* determine, whatever the order in which the fetches settled.
C7_OrderIndependent ==
  \A r \in ReqIds : Answered(r) => resp[r] = ExpectedResponse(route, web, query[r])

\* the second source answered first and both contributed
C7_Witness ==
  \E r \in ReqIds :
    /\ Answered(r)
    /\ arrival[r] = <<2, 1>>
    /\ slots[r][1].items # <<>> /\ slots[r][2].items # <<>>
    /\ Len(PageIn(resp[r])) = 3

\* a parameter that is present without being a number
NonNumeric(p) == p.present /\ (p.s = <<>> \/ ~AllDigits(p.s))
Omitted(p) == IF NonNumeric(p) THEN Absent ELSE p
DefaultLimit(rt) == IF rt = "product" THEN 20 ELSE 30

\* C8: a non-numeric offset or limit is answered as if the parameter had
\* been omitted, and an omitted parameter means offset 0 and limit 30 (20
\* for products).
C8_NonNumericAsOmitted ==
  \A r \in ReqIds :
    Answered(r) =>
      /\ resp[r] = ExpectedResponse(route, web,
                     [offset |-> Omitted(query[r].offset), limit |-> Omitted(query[r].limit)])
      /\ ~query[r].offset.present => params[r].offset = Num(0)
      /\ ~query[r].limit.present => params[r].limit = Num(DefaultLimit(route))

\* C9: a request gets exactly one response; it is 200 with items, hasMore
\* and total, or 500 with an error message only; a failure before the
\* per-source work yields the 500 form.
C9_OneResponse ==
  \A r \in ReqIds :
    /\ sent[r] = (IF pc[r] = "done" THEN 1 ELSE 0)
    /\ pc[r] # "done" => resp[r] = NoResponse
    /\ pc[r] = "done" =>
         \/ /\ resp[r].status = 200
            /\ DOMAIN resp[r].body = {IF route = "product" THEN "products" ELSE "items", "hasMore", "total"}
            /\ AllDone(slots[r])
         \/ /\ resp[r].status = 500
            /\ DOMAIN resp[r].body = {"error"}
            /\ resp[r].body.error # ""
            /\ arrival[r] = <<>>

C9_Witness ==
  \E r \in ReqIds : pc[r] = "done" /\ resp[r].status = 500 /\ sent[r] = 1

\* C10: every item of a result set has a non-empty title and a non-empty
\* link (news), URL (product) or video identifier (video).
C10_TitleAndLink ==
  \A r \in ReqIds :
    Answered(r) =>
      \A i \in 1..Len(allItems[r]) :
        /\ allItems[r][i].title # ""
        /\ route = "news" => allItems[r][i].link # ""
        /\ route = "product" => allItems[r][i].url # ""
        /\ route = "video" => allItems[r][i].videoId # ""

\* ---------------------------------------------------------------- C11
\* the price as the selector chain is described: the amount matched in the
\* text of the first selector whose text holds a marker followed by digits
RECURSIVE PatternPriceFrom(_, _, _)
PatternPriceFrom(page, selectors, i) ==
  IF i > Len(selectors) THEN "Price not available"
  ELSE IF TextOf(page, selectors[i]).money # "" THEN TextOf(page, selectors[i]).money
  ELSE PatternPriceFrom(page, selectors, i + 1)
PatternPrice(url, domain) ==
  IF Includes(domain, "pickaboo") THEN PatternPriceFrom(ProductPageAt(url), PickabooSelectors, 1)
  ELSE IF Includes(domain, "daraz") THEN PatternPriceFrom(ProductPageAt(url), DarazSelectors, 1)
  ELSE "Price not available"

\* C11: the price of every scraped product is the currency-pattern
\* substring of the first selector of its domain's chain whose text holds a
\* currency marker followed by digits, and the "Price not available"
\* sentinel when no selector of the chain does.
C11_PriceIsPattern ==
  \A r \in ReqIds :
    (route = "product" /\ Answered(r)) =>
      \A i \in 1..Len(allItems[r]) :
        allItems[r][i].price = PatternPrice(allItems[r][i].url, allItems[r][i].domain)

\* ---------------------------------------------------------------- C12
\* the positions of the enrichment pass for which a page fetch was issued
Fetched(e) == {i \in 1..Len(e) : e[i].st # "kept"}

\* C12: the enrichment pass runs over the paginated page only: no fetch is
\* issued before the page exists, one is issued exactly for the items of
\* the page that are flagged needsImage and have a link, and the number of
\* fetches is at most the page length, hence at most the limit.
C12_EnrichOnlyPage ==
  \A r \in ReqIds :
    route = "news" =>
      /\ ~AllDone(slots[r]) => enrich[r] = <<>>
      /\ AllDone(slots[r]) =>
           LET page == PageOf(allItems[r], params[r])
           IN /\ Len(enrich[r]) = Len(page)
              /\ \A i \in 1..Len(page) :
                   /\ enrich[r][i].item.guid = page[i].guid
                   /\ (i \in Fetched(enrich[r])) <=> (page[i].needsImage /\ page[i].link # "")
              /\ Cardinality(Fetched(enrich[r])) <= Len(page)
              /\ IsCount(params[r].limit) => Cardinality(Fetched(enrich[r])) <= params[r].limit.v

\* a one-item page was enriched with one fetch while an item outside the
\* page that also lacks an image was left alone
C12_Witness ==
  \E r \in ReqIds :
    /\ route = "news" /\ Answered(r)
    /\ params[r].limit = Num(1)
    /\ Len(allItems[r]) = 3
    /\ Cardinality(Fetched(enrich[r])) = 1
    /\ \E i \in 2..3 : allItems[r][i].needsImage

\* ---------------------------------------------------------------- C13
\* C13: an enrichment fetch that fails, or finds no og:image tag, leaves its
\* item in the page with an empty image; every other item of the page gets
\* the image of its own page, and the request answers 200 with the page.
C13_EnrichFailureIsEmpty ==
  \A r \in ReqIds :
    (route = "news" /\ AllDone(slots[r])) =>
      /\ \A i \in 1..Len(enrich[r]) :
           enrich[r][i].st = "done" =>
             /\ enrich[r][i].item.image = PageAt(enrich[r][i].item.link).og
             /\ enrich[r][i].item.guid = PageOf(allItems[r], params[r])[i].guid
      /\ pc[r] = "done" =>
           /\ resp[r].status = 200
           /\ PageIn(resp[r]) = EnrichedItems(enrich[r])
           /\ Len(PageIn(resp[r])) = Len(PageOf(allItems[r], params[r]))

\* a page where one item's fetch failed and another item's fetch found an image
C13_Witness ==
  \E r \in ReqIds :
    /\ route = "news" /\ Answered(r) /\ resp[r].status = 200
    /\ \E i, j \in 1..Len(enrich[r]) :
         /\ enrich[r][i].st = "done" /\ ~PageAt(enrich[r][i].item.link).up
         /\ enrich[r][i].item.image = ""
         /\ enrich[r][j].st = "done" /\ enrich[r][j].item.image = "og.jpg"

\* ---------------------------------------------------------------- C14
\* C14: no item of a news response carries a needsImage field.
C14_NoNeedsImageInOutput ==
  \A r \in ReqIds :
    (route = "news" /\ Answered(r)) =>
      \A i \in 1..Len(PageIn(resp[r])) : "needsImage" \notin DOMAIN PageIn(resp[r])[i]

\* ---------------------------------------------------------------- C15
\* an entry that has every element the mapping reads other than the statistics
HasVideoFields(e) ==
  /\ e.id # <<>> /\ e.videoId # <<>> /\ e.title # <<>>
  /\ e.author # <<>> /\ e.published # <<>>
\* the view count of an entry: its statistics' count, "0" without one
ViewsOf(e) == IF e.stats = <<>> \/ e.stats[1].views = "" THEN "0" ELSE e.stats[1].views

\* C15: every entry of a channel feed that answers is returned as a video
\* whose thumbnail is built from its videoId alone and whose views are the
\* statistics' count, or "0" when the entry has no statistics; an entry
\* without statistics is returned too and does not affect its neighbours.
C15_ViewsDefault ==
  \A r \in ReqIds :
    (route = "video" /\ Answered(r)) =>
      \A s \in Slots :
        (web[s].kind = "doc" /\ \A i \in DOMAIN web[s].items : HasVideoFields(web[s].items[i])) =>
          \A i \in DOMAIN web[s].items :
            \E k \in 1..Len(allItems[r]) :
              /\ allItems[r][k].videoId = web[s].items[i].videoId[1]
              /\ allItems[r][k].thumbnail =
                   <<"https://i.ytimg.com/vi/", web[s].items[i].videoId[1], "/mqdefault.jpg">>
              /\ allItems[r][k].views = ViewsOf(web[s].items[i])

\* ---------------------------------------------------------------- C16
\* the elements of a sequence of products whose title collates equal to t
TitledLike(a, t) == SelectSeq(a, LAMBDA x : localeCompare(x.title, t).v = 0)

\* C16: in the product aggregate a before b means a.title compares less
\* than or equal to b.title under localeCompare, and the products whose
\* titles compare equal stand in the order of the flattened source results.
C16_ProductOrder ==
  \A r \in ReqIds :
    (route = "product" /\ Answered(r)) =>
      LET flat == Flat(Results(slots[r]))
      IN /\ \A i, j \in 1..Len(allItems[r]) :
              i < j => localeCompare(allItems[r][i].title, allItems[r][j].title).v <= 0
         /\ \A k \in 1..Len(flat) :
              TitledLike(allItems[r], flat[k].title) = TitledLike(flat, flat[k].title)

\* the sort moved something, and two products of different sources share a title
C16_Witness ==
  \E r \in ReqIds :
    /\ route = "product" /\ Answered(r)
    /\ Len(allItems[r]) = 3
    /\ allItems[r] # Flat(Results(slots[r]))
    /\ \E i, j \in 1..3 :
         /\ i < j
         /\ allItems[r][i].title = allItems[r][j].title
         /\ allItems[r][i].domain # allItems[r][j].domain

\* ---------------------------------------------------------------- C17
\* every fetch the request started has settled: each source's slot is
\* filled, each sitemap was read and each scrape handed to the pool is done
AllSettled(r) ==
  /\ \A s \in Slots : slots[r][s].done
  /\ route = "product" =>
       \A s \in Slots : listed[r][s] /\ \A i \in DOMAIN tasks[r][s] : tasks[r][s][i].st = "done"

\* C17: a response with a page is sent only when every per-source fetch of
\* the request, and for products every scrape handed to the pool, has
\* settled; until then nothing is sorted or sliced and nothing is sent
\* (the only earlier response is the 500 sent before any fetch started).
C17_WaitsForAll ==
  \A r \in ReqIds :
    /\ ~AllSettled(r) =>
         /\ allItems[r] = <<>> /\ enrich[r] = <<>>
         /\ resp[r] = NoResponse \/ (resp[r].status = 500 /\ arrival[r] = <<>>)
    /\ resp[r].status = 200 => AllSettled(r) /\ Len(arrival[r]) = Cardinality(Slots)

\* a product request answered after both sitemaps and three scrapes settled
C17_Witness ==
  \E r \in ReqIds :
    /\ route = "product" /\ resp[r].status = 200
    /\ Len(tasks[r][1]) + Len(tasks[r][2]) = 3
    /\ tasks[r][1] # <<>> /\ tasks[r][2] # <<>>
    /\ AllSettled(r)

\* ---------------------------------------------------------------- C18
\* the list a caller should end up with: the full aggregate of what the
\* sources hold, news items with the image of their page
FullList(rt, w) ==
  LET all == AggregateOf(rt, [s \in Slots |-> SourceItems(rt, s, w)])
  IN IF rt = "news" THEN EnrichAll(all) ELSE all
IsPrefix(a, b) == Len(a) <= Len(b) /\ a = SubSeq(b, 1, Len(a))

\* C18: the pages read at offsets 0, L, 2L, ... are consecutive pieces of
\* the aggregate: what was read so far is a prefix of it, every page
\* reports the aggregate's length as total, hasMore is true on every page
\* but the last, and when the page with hasMore = false has been read the
\* concatenation is the whole aggregate.
C18_PagesCover ==
  pager.state # "none" =>
    LET full == FullList(route, web)
        n == Len(pager.flags)
    IN /\ IsPrefix(pager.shown, full)
       /\ Len(pager.shown) = Min(n * pager.size, Len(full))
       /\ \A k \in 1..n : pager.totals[k] = Len(full)
       /\ \A k \in 1..n : pager.flags[k] = (k * pager.size < Len(full))
       /\ \A k \in 1..(n - 1) : pager.flags[k]
       /\ pager.state = "finished" => pager.shown = full /\ ~pager.flags[n]

\* three items read in pages of two: a full page with hasMore, then the rest
C18_Witness ==
  /\ pager.state = "finished"
  /\ pager.size = 2
  /\ Len(pager.shown) = 3
  /\ pager.flags = <<TRUE, FALSE>>
  /\ pager.totals = <<3, 3>>

\* ---------------------------------------------------------------- C19
\* C19: whatever the interleaving of mount, scroll events and responses,
\* the list a page component displays is a prefix of the server's
\* aggregate: nothing is appended twice and nothing is skipped.
C19_ListIsPrefix ==
  ui.state = "page" => IsPrefix(ui.items, FullList(route, web))

\* ---------------------------------------------------------------- C20
Waiting(r, s, i) == i \in DOMAIN tasks[r][s] /\ tasks[r][s][i].st = "queued"
Admitted(r, s, i) == i \in DOMAIN tasks[r][s] /\ tasks[r][s][i].st \in {"running", "done"}

\* C20: when every fetch that was started settles, every scrape waiting in
\* the pool's queue is eventually started and run, and every product
\* request eventually sends its response: the pipeline reaches the state
\* where nothing waits, nothing runs and both requests are answered.
C20_Progress ==
  <>(/\ \A r \in ReqIds : pc[r] = "done" /\ sent[r] = 1
     /\ \A r \in ReqIds, s \in Slots : \A i \in DOMAIN tasks[r][s] : Admitted(r, s, i)
     /\ ~\E r \in ReqIds, s \in Slots, i \in 1..ScrapeCap : Waiting(r, s, i)
     /\ queue = <<>> /\ activeCount = 0)

\* both requests were answered after more scrapes than the pool has slots,
\* one of them failed, had all run
C20_Witness ==
  /\ \A r \in ReqIds : pc[r] = "done" /\ resp[r].status = 200
  /\ \A r \in ReqIds, s \in Slots : \A i \in DOMAIN tasks[r][s] : tasks[r][s][i].st = "done"
  /\ Len(tasks["r1"][1]) + Len(tasks["r1"][2]) + Len(tasks["r2"][1]) + Len(tasks["r2"][2]) > PoolSize
  /\ \E r \in ReqIds, s \in Slots : \E i \in DOMAIN tasks[r][s] : tasks[r][s][i].result = NoProduct

\* ---------------------------------------------------------------- C21
\* the fields of a news item the enrichment pass has no business with
Framed(item) ==
  [title |-> item.title, link |-> item.link, description |-> item.description,
   pubDate |-> item.pubDate, guid |-> item.guid, domain |-> item.domain]
\* the registry slot whose feed gave the item its identifier
SlotOf(item) == CHOOSE s \in Slots : \E k \in DOMAIN GuidNames[s] : GuidNames[s][k] = item.guid

\* C21: the enrichment pass returns the page item for item: the same
\* number of items in the same order, each with its title, link,
\* description, pubDate, guid and domain as before (the domain being the
\* hostname of the item's source); an item that is not flagged needsImage
\* is returned as it is and no fetch is made for it.
C21_EnrichPreservesPage ==
  \A r \in ReqIds :
    (route = "news" /\ AllDone(slots[r])) =>
      LET page == PageOf(allItems[r], params[r])
      IN /\ Len(enrich[r]) = Len(page)
         /\ \A i \in 1..Len(page) :
              /\ Framed(enrich[r][i].item) = Framed(page[i])
              /\ enrich[r][i].item.domain = Hostname(NewsUrls[SlotOf(page[i])])
              /\ ~page[i].needsImage => enrich[r][i] = [st |-> "kept", item |-> page[i]]
         /\ pc[r] = "done" =>
              /\ Len(PageIn(resp[r])) = Len(page)
              /\ \A i \in 1..Len(page) :
                   /\ Framed(PageIn(resp[r])[i]) = Framed(page[i])
                   /\ ~page[i].needsImage => PageIn(resp[r])[i] = page[i]

\* a page of both sources answered with an item that got its image from
\* the fetch and an item that had one and was left alone
C21_Witness ==
  \E r \in ReqIds :
    /\ route = "news" /\ Answered(r)
    /\ \E i, j \in 1..Len(enrich[r]) :
         /\ enrich[r][i].st = "done" /\ enrich[r][i].item.image = "og.jpg"
         /\ enrich[r][j].st = "kept" /\ enrich[r][j].item.image = "m.jpg"
         /\ enrich[r][i].item.domain # enrich[r][j].item.domain

\* ---------------------------------------------------------------- C22
\* the load whose response the step delivers to the component
Delivers(r, load) == ui.calls[r] = load /\ ui'.calls[r] = "none"
LoadMoreInFlight == \E r \in ReqIds : ui.calls[r] = "more"

\* C22: in the page components loadingMore is true only while a load-more
\* request is in flight, and it is false after the response of a load-more
\* was handled, failed or not; a load-more that fails leaves the list,
\* hasMore, error and loading as they were; a first load that fails sets
\* error, resets loading and leaves the list as it was.
C22_FailureFrames ==
  /\ [](ui.loadingMore => LoadMoreInFlight)
  /\ [][\A r \in ReqIds :
          /\ Delivers(r, "more") =>
               /\ ~ui'.loadingMore
               /\ resp[r].status # 200 =>
                    /\ ui'.items = ui.items
                    /\ ui'.hasMore = ui.hasMore
                    /\ ui'.error = ui.error
                    /\ ui'.loading = ui.loading
          /\ (Delivers(r, "initial") /\ resp[r].status # 200) =>
               /\ ui'.error
               /\ ~ui'.loading
               /\ ui'.items = ui.items
               /\ ui'.hasMore = ui.hasMore]_vars

\* the first load and a load-more have both failed: the error is shown, the
\* list is still empty although the sources hold items, nothing is in
\* flight and the listener of the current render lets a scroll ask again
C22_Witness ==
  /\ ui.state = "page"
  /\ Len(FullList(route, web)) > 0
  /\ ui.mores >= 1
  /\ \A r \in ReqIds : ui.calls[r] = "none"
  /\ ui.error /\ ~ui.loading
  /\ ui.items = <<>>
  /\ ui.hasMore /\ ~ui.loadingMore
  /\ ui.seen = Rendered(ui)

\* ---------------------------------------------------------------- C23
\* C23: the id of a product is determined by its URL, and two products of
\* one response that have different URLs have different ids, the URLs that
\* begin with the same twelve characters included.
C23_IdsAreKeys ==
  \A r \in ReqIds :
    (route = "product" /\ Answered(r)) =>
      LET page == PageIn(resp[r])
      IN \A i, j \in 1..Len(page) :
           /\ page[i].id = ProductId(page[i].url)
           /\ page[i].url # page[j].url => page[i].id # page[j].id

====
